---- MODULE Spec2Model ----
(***************************************************************************)
(* Decision ledger and stage progression of the AI-cofounder backend:      *)
(* GitHubFuturesClient (backend/src/github/client.ts), the completeness    *)
(* evaluators and the waterfall-progression workflow                       *)
(* (backend/src/workflows/analysis-workflow.ts) and the execute-workflow   *)
(* route (backend/src/routes/ideas.ts).                                    *)
(*                                                                         *)
(* Numbers with a fractional part (confidence, revisit probability,        *)
(* criticality, validation rate) are kept in hundredths: 0.7 is 70.        *)
(* Strings are kept as sequences of tokens, so that a prefix or a cut at   *)
(* a colon is something an operator computes.                              *)
(***************************************************************************)
EXTENDS Integers, Sequences, FiniteSets, TLC

VARIABLES
  \* ---- the versioned store (one idea repository) ----
  commits,      \* branch -> sequence of commit messages, oldest first
  log,          \* branch -> content of DECISIONS.log, or NoFile
  \* ---- makeDecision calls in flight ----
  pc,           \* caller -> position inside makeDecision
  args,         \* caller -> [branch, decision] of the current call
  existing,     \* caller -> what findDecision returned
  snap,         \* caller -> DECISIONS.log as read by getContent (its blob sha)
  ret,          \* caller -> value returned by makeDecision
  findRes,      \* last result of the check-decision-history tool
  \* ---- history kept for the properties ----
  ncalls,       \* number of makeDecision calls started
  appended,     \* caller -> the current call has written a decision commit
  overlapped,   \* caller -> the callers whose current call ran during its own
  priorAtCall,  \* caller -> latest record of the name when the call started
  lookupFailed, \* caller -> listCommits of the current call's lookup threw
  everAppended, \* all decision records ever appended, in order
  history,      \* finished calls, in order of completion
  \* ---- the completeness evaluator ----
  content,      \* the artifact set handed to the evaluator
  verdict,      \* what the evaluator returned for it
  analysisVerdict,   \* what validate-completeness of analysisWorkflow returned
  stageVerdict, \* what check-completeness returned for it as a stage's content
  \* ---- stage progression ----
  artifacts,    \* branch -> artifact set now on the branch
  run,          \* invocation -> position and step results of the workflow
  prs,          \* pull requests of the repository, by number
  ntriggers,    \* number of branch-update events delivered
  effects,      \* what each invocation has done to the store and the agents
  hasLoadAllFiles,   \* the client of this build has a loadAllFiles method
  verdictsOf,   \* branch -> verdicts given on the artifacts now on the branch
  evaluatedComplete, \* stages that an evaluator has found complete
  generatedFor,      \* stages that stage content was generated into
  \* ---- the decision wire format ----
  wire,         \* a decision, the commit message written for it, its parse
  \* ---- idea creation ----
  idea,         \* idea -> how far its repository has been set up
  \* ---- a stage agent ----
  agent,        \* the stage of the BaseStageAgent and its last tool call
  tree,         \* branch -> file name -> the file now on the branch
  \* ---- createStagePR called on its own ----
  asked,        \* the last pulls.create request of createStagePR
  \* ---- 'Make a decision' tool calls of several stage agents ----
  deciding      \* caller -> the step and the local values of its tool call

ledgerVars == <<commits, log, pc, args, existing, snap, ret, findRes,
                ncalls, appended, overlapped, priorAtCall, lookupFailed,
                everAppended, history>>

evalVars == <<content, verdict, analysisVerdict, stageVerdict>>

flowVars ==
  <<artifacts, run, prs, ntriggers, effects, hasLoadAllFiles, verdictsOf,
    evaluatedComplete, generatedFor>>

wireVars == <<wire>>

ideaVars == <<idea>>

agentVars == <<agent, tree>>

pullVars == <<asked>>

toolVars == <<deciding>>

vars ==
  <<ledgerVars, evalVars, flowVars, wireVars, ideaVars, agentVars, pullVars,
    toolVars>>

(***************************************************************************)
(* Bounds                                                                  *)
(***************************************************************************)
MaxCalls == 2
NumCallers == 2
MaxLines == 5
MaxTriggers == 2
NumIdeas == 2
MaxBlocks == 3

Callers == 1..NumCallers

(***************************************************************************)
(* Branches and stages                                                     *)
(***************************************************************************)
stages == <<"requirements", "analysis", "design", "implementation",
            "testing", "validation", "deployment">>

StageSet == {stages[i] : i \in 1..Len(stages)}

DefaultBranch == "main"

\* the active and the stable sub-branch of the implementation stage
ActiveBranch == "implementation/develop"
StableBranch == "implementation/production"

Branches == StageSet \cup {ActiveBranch, StableBranch, DefaultBranch}

\* the branches that callers of makeDecision name in this model
TargetBranches == {"requirements", "analysis", StableBranch}

\* the branches on which initializeRequirements creates DECISIONS.log
LogBranchesAll == Branches
LogBranches == {"requirements"}

\* readFile on a path the branch does not hold answers 404
NoFile == [exists |-> FALSE, entries |-> <<>>]
File(entries) == [exists |-> TRUE, entries |-> entries]

(***************************************************************************)
(* Decisions                                                               *)
(***************************************************************************)
Names == {<<"use", "database">>, <<"use", "database", "v2">>}
Chosens == {<<"PostgreSQL">>, <<"MongoDB">>}
RevisitThreshold == 70

Decisions ==
  [name : Names, chosen : Chosens, confidence : {85},
   revisitProbability : {5, 90}]

\* `null` where a decision is expected
NoDecision ==
  [name |-> <<>>, chosen |-> <<>>, confidence |-> -1, revisitProbability |-> -1]

NoMessage == [kind |-> "none", decision |-> NoDecision]
NoArgs == [branch |-> "none", decision |-> NoDecision, startedAfter |-> 0]
NoFind == [name |-> <<>>, result |-> NoDecision, committed |-> NoDecision]
Result(status, value) == [status |-> status, value |-> value]

IsPrefix(s, t) == Len(s) <= Len(t) /\ SubSeq(t, 1, Len(s)) = s

\* c.commit.message.includes(`decision: ${decisionName}`): the message starts
\* with "decision: <name>", and no other field of it holds that label
MessageIncludes(msg, decisionName) ==
  msg.kind = "decision" /\ IsPrefix(decisionName, msg.decision.name)

\* line.split(':')[1].trim(): the text between the first and second colon
RECURSIVE UpToColon(_)
UpToColon(s) ==
  IF s = <<>> \/ Head(s) = ":" THEN <<>> ELSE <<Head(s)>> \o UpToColon(Tail(s))

parseDecisionFromCommit(msg) ==
  [name |-> <<>>,
   chosen |-> UpToColon(msg.decision.chosen),
   confidence |-> msg.decision.confidence,
   revisitProbability |-> msg.decision.revisitProbability]

\* repos.listCommits without `sha`: the commits of the default branch, newest
\* first; commits.find returns the first message that includes the label
RECURSIVE FirstMatch(_, _, _)
FirstMatch(cs, i, decisionName) ==
  IF i = 0 THEN NoMessage
  ELSE IF MessageIncludes(cs[i], decisionName) THEN cs[i]
  ELSE FirstMatch(cs, i - 1, decisionName)

findDecision(decisionName) ==
  LET decisionCommit ==
        FirstMatch(commits[DefaultBranch], Len(commits[DefaultBranch]),
                   decisionName)
  IN IF decisionCommit # NoMessage THEN parseDecisionFromCommit(decisionCommit)
     ELSE NoDecision

commitMessage(decision) == [kind |-> "decision", decision |-> decision]

InitMessage == [kind |-> "init", decision |-> NoDecision]

(***************************************************************************)
(* History operators                                                       *)
(***************************************************************************)
RECURSIVE LastNamed(_, _, _)
LastNamed(recs, i, n) ==
  IF i = 0 THEN NoDecision
  ELSE IF recs[i].name = n THEN recs[i]
  ELSE LastNamed(recs, i - 1, n)

LatestRecord(n) == LastNamed(everAppended, Len(everAppended), n)

InFlight(p) == pc[p] \in {"lookup", "read", "write"}

\* decision records of name n that stand in the DECISIONS.log of some branch
RecordsInLogs(n) ==
  {<<b, i>> \in Branches \X (1..MaxCalls) :
      /\ log[b].exists
      /\ i <= Len(log[b].entries)
      /\ log[b].entries[i].name = n}

\* decision commits of name n in the history of some branch
DecisionCommits(n) ==
  {<<b, i>> \in Branches \X (1..(MaxCalls + 1)) :
      /\ i <= Len(commits[b])
      /\ commits[b][i].kind = "decision"
      /\ commits[b][i].decision.name = n}

(***************************************************************************)
(* Init: the repository once initializeRequirements has run                *)
(***************************************************************************)
InitLedger ==
  /\ commits = [b \in Branches |->
                  IF b \in LogBranches THEN <<InitMessage>> ELSE <<>>]
  /\ log = [b \in Branches |-> IF b \in LogBranches THEN File(<<>>) ELSE NoFile]
  /\ pc = [p \in Callers |-> "idle"]
  /\ args = [p \in Callers |-> NoArgs]
  /\ existing = [p \in Callers |-> NoDecision]
  /\ snap = [p \in Callers |-> NoFile]
  /\ ret = [p \in Callers |-> Result("none", NoDecision)]
  /\ findRes = NoFind
  /\ ncalls = 0
  /\ appended = [p \in Callers |-> FALSE]
  /\ overlapped = [p \in Callers |-> {}]
  /\ priorAtCall = [p \in Callers |-> NoDecision]
  /\ lookupFailed = [p \in Callers |-> FALSE]
  /\ everAppended = <<>>
  /\ history = <<>>

(***************************************************************************)
(* makeDecision                                                            *)
(***************************************************************************)
\* a caller (the make_decision tool) enters makeDecision
MdCall(p, branch, decision) ==
  /\ pc[p] \in {"idle", "done", "failed"}
  /\ ncalls < MaxCalls
  /\ ncalls' = ncalls + 1
  /\ pc' = [pc EXCEPT ![p] = "lookup"]
  /\ args' = [args EXCEPT ![p] = [branch |-> branch, decision |-> decision,
                                  startedAfter |-> Len(history)]]
  /\ existing' = [existing EXCEPT ![p] = NoDecision]
  /\ snap' = [snap EXCEPT ![p] = NoFile]
  /\ ret' = [ret EXCEPT ![p] = Result("none", NoDecision)]
  /\ appended' = [appended EXCEPT ![p] = FALSE]
  /\ overlapped' = [q \in Callers |->
                      IF q = p THEN {r \in Callers \ {p} : InFlight(r)}
                      ELSE IF InFlight(q) THEN overlapped[q] \cup {p}
                      ELSE overlapped[q] \ {p}]
  /\ priorAtCall' = [priorAtCall EXCEPT ![p] = LatestRecord(decision.name)]
  /\ lookupFailed' = [lookupFailed EXCEPT ![p] = FALSE]
  /\ UNCHANGED <<commits, log, findRes, everAppended, history>>
  /\ UNCHANGED <<evalVars, flowVars, wireVars, ideaVars, agentVars, pullVars, toolVars>>

Finish(p, outcome, value) ==
  Append(history, [name |-> args[p].decision.name,
                   revisitProbability |-> args[p].decision.revisitProbability,
                   outcome |-> outcome,
                   chosen |-> value,
                   startedAfter |-> args[p].startedAfter])

\* findDecision and the test on its result; when listCommits throws (the
\* store is not reached) the catch of findDecision answers null
MdLookup(p) ==
  /\ pc[p] = "lookup"
  /\ \E reached \in BOOLEAN :
     LET found == IF reached THEN findDecision(args[p].decision.name)
                  ELSE NoDecision
     IN /\ existing' = [existing EXCEPT ![p] = found]
        /\ lookupFailed' = [lookupFailed EXCEPT ![p] = ~reached]
        /\ IF found # NoDecision /\ args[p].decision.revisitProbability < RevisitThreshold
           THEN /\ pc' = [pc EXCEPT ![p] = "done"]
                /\ ret' = [ret EXCEPT ![p] = Result("ok", found)]
                /\ history' = Finish(p, "reused", found.chosen)
           ELSE /\ pc' = [pc EXCEPT ![p] = "read"]
                /\ UNCHANGED <<ret, history>>
  /\ UNCHANGED <<commits, log, args, snap, findRes, ncalls, appended,
                 overlapped, priorAtCall, everAppended>>
  /\ UNCHANGED <<evalVars, flowVars, wireVars, ideaVars, agentVars, pullVars, toolVars>>

\* repos.getContent of DECISIONS.log on the target branch
MdRead(p) ==
  /\ pc[p] = "read"
  /\ IF ~log[args[p].branch].exists
     THEN /\ pc' = [pc EXCEPT ![p] = "failed"]
          /\ ret' = [ret EXCEPT ![p] = Result("NotFound", NoDecision)]
          /\ history' = Finish(p, "NotFound", <<>>)
          /\ UNCHANGED snap
     ELSE /\ pc' = [pc EXCEPT ![p] = "write"]
          /\ snap' = [snap EXCEPT ![p] = log[args[p].branch]]
          /\ UNCHANGED <<ret, history>>
  /\ UNCHANGED <<commits, log, args, existing, findRes, ncalls, appended,
                 overlapped, priorAtCall, lookupFailed, everAppended>>
  /\ UNCHANGED <<evalVars, flowVars, wireVars, ideaVars, agentVars, pullVars, toolVars>>

\* the sha handed to createOrUpdateFileContents is that of the file now on
\* the branch (the store answers 409 when it is not)
ShaIgnored(p) == TRUE
ShaMatches(p) == log[args[p].branch] = snap[p]

\* newContent = currentContent + `\n${commitMessage}\n---\n`
NewContentReplaced(currentContent, decision) == <<decision>>
NewContent(currentContent, decision) == Append(currentContent, decision)

\* repos.createOrUpdateFileContents with the sha that was read
MdWrite(p) ==
  /\ pc[p] = "write"
  /\ LET b == args[p].branch
         d == args[p].decision
     IN IF ~ShaMatches(p)
        THEN /\ pc' = [pc EXCEPT ![p] = "failed"]
             /\ ret' = [ret EXCEPT ![p] = Result("Conflict", NoDecision)]
             /\ history' = Finish(p, "Conflict", <<>>)
             /\ UNCHANGED <<commits, log, appended, everAppended>>
        ELSE /\ log' = [log EXCEPT ![b] = File(NewContent(snap[p].entries, d))]
             /\ commits' = [commits EXCEPT ![b] = Append(@, commitMessage(d))]
             /\ pc' = [pc EXCEPT ![p] = "done"]
             /\ ret' = [ret EXCEPT ![p] = Result("ok", d)]
             /\ appended' = [appended EXCEPT ![p] = TRUE]
             /\ everAppended' = Append(everAppended, d)
             /\ history' = Finish(p, "new", d.chosen)
  /\ UNCHANGED <<args, existing, snap, findRes, ncalls, overlapped, priorAtCall,
                 lookupFailed>>
  /\ UNCHANGED <<evalVars, flowVars, wireVars, ideaVars, agentVars, pullVars, toolVars>>

\* the check_decision_history tool: findDecision on its own
CheckDecisionHistory(n) ==
  /\ findRes' = [name |-> n, result |-> findDecision(n),
                 committed |-> LatestRecord(n)]
  /\ findRes' # findRes
  /\ UNCHANGED <<commits, log, pc, args, existing, snap, ret, ncalls, appended,
                 overlapped, priorAtCall, lookupFailed, everAppended, history>>
  /\ UNCHANGED <<evalVars, flowVars, wireVars, ideaVars, agentVars, pullVars, toolVars>>

\* the owner of the repository merges a stage branch into the default
\* branch (on GitHub, outside this program): the default branch then holds
\* the commits and the files of the stage branch, and repos.listCommits,
\* which findDecision calls without a sha, answers them
MergeIntoDefault(b) ==
  /\ log[b].exists
  /\ commits[DefaultBranch] # commits[b]
  /\ commits' = [commits EXCEPT ![DefaultBranch] = commits[b]]
  /\ log' = [log EXCEPT ![DefaultBranch] = log[b]]
  /\ UNCHANGED <<pc, args, existing, snap, ret, findRes, ncalls, appended,
                 overlapped, priorAtCall, lookupFailed, everAppended, history>>
  /\ UNCHANGED <<evalVars, flowVars, wireVars, ideaVars, agentVars, pullVars, toolVars>>

NextLedger ==
  \/ \E p \in Callers, b \in TargetBranches, d \in Decisions : MdCall(p, b, d)
  \/ \E p \in Callers : MdLookup(p)
  \/ \E p \in Callers : MdRead(p)
  \/ \E p \in Callers : MdWrite(p)
  \/ \E n \in Names : CheckDecisionHistory(n)


(***************************************************************************)
(* Completeness evaluators                                                 *)
(***************************************************************************)
\* An artifact set is the map path -> text that load-content hands on.  A
\* text is kept by what the evaluators read of it: its length (Absent when
\* the path is missing), and for ASSUMPTIONS.md its lines.  A line is plain
\* text or a "##" heading; of a heading the evaluator reads the number that
\* follows "criticality: " and whether it holds "[validated]" or "[x]".
Absent == -1
NoMatch == -1        \* the heading has no "criticality: <number>"
NotANumber == -2     \* parseFloat of the matched text is NaN (such as ".")
MinRequirementsLength == 100
DefaultCriticality == 50
CriticalAbove == 70
RequiredRate == 80

\* the criticalities written in the headings of this model
Criticalities == {NoMatch, 70, 80}

PlainLine == [heading |-> FALSE, criticality |-> NoMatch, validated |-> FALSE]

Lines ==
  {PlainLine} \cup
  [heading : {TRUE}, criticality : Criticalities, validated : BOOLEAN]

SeqsUpTo(S, n) == UNION {[1..k -> S] : k \in 0..n}

NoText == [exists |-> FALSE, lines |-> <<>>]

\* the empty text is the text of no line
AssumptionTexts ==
  {NoText} \cup {[exists |-> TRUE, lines |-> ls] : ls \in SeqsUpTo(Lines, MaxLines)}

\* The deliverables of the analysis stage, each kept by what
\* validate-completeness reads of it.  An entry of ANALYSIS.md is a heading
\* "### ... Unknown ...", an entry of RISK_ASSESSMENT.md a "###" heading, an
\* entry of COMPETITIVE_ANALYSIS.md a heading "### Competitor ...".
MinUnknowns == 5
MinRisks == 5
MinCompetitors == 3
MinCompetitiveLength == 300

NoDoc == [exists |-> FALSE, phrase |-> FALSE, entries |-> 0, length |-> 0]
Doc(phrase, entries, length) ==
  [exists |-> TRUE, phrase |-> phrase, entries |-> entries, length |-> length]

NoAnalysisFiles ==
  [analysis |-> NoDoc, mvp |-> NoDoc, competitive |-> NoDoc, risks |-> NoDoc]

\* phrase: ANALYSIS.md has the section heading "## Biggest Unknowns"
AnalysisDocs ==
  {NoDoc} \cup {Doc(ph, n, 1) : ph \in BOOLEAN,
                               n \in {MinUnknowns - 1, MinUnknowns}}
\* phrase: MVP_DEFINITION.md holds "Core Hypothesis"
MvpDocs == {NoDoc} \cup {Doc(ph, 0, 1) : ph \in BOOLEAN}
CompetitiveDocs ==
  {NoDoc} \cup {Doc(FALSE, n, l) :
                  n \in {MinCompetitors - 1, MinCompetitors},
                  l \in {MinCompetitiveLength, MinCompetitiveLength + 1}}
\* phrase: RISK_ASSESSMENT.md holds "Risk"
RiskDocs ==
  {NoDoc} \cup {Doc(ph, n, 1) : ph \in BOOLEAN,
                               n \in {MinRisks - 1, MinRisks, MinRisks + 1}}

AnalysisFiles ==
  [analysis : AnalysisDocs, mvp : MvpDocs, competitive : CompetitiveDocs,
   risks : RiskDocs]

\* artifact sets of a requirements branch, of an implementation branch and
\* of an analysis branch
RequirementsContents ==
  [requirements : {Absent, MinRequirementsLength, MinRequirementsLength + 1},
   assumptions : AssumptionTexts,
   goals : {Absent, 0, 1},
   src : {FALSE},
   tests : {FALSE},
   analysis : {NoAnalysisFiles}]

ImplementationContents ==
  [requirements : {Absent},
   assumptions : {NoText},
   goals : {Absent},
   src : BOOLEAN,
   tests : BOOLEAN,
   analysis : {NoAnalysisFiles}]

AnalysisContents ==
  [requirements : {Absent},
   assumptions : {NoText},
   goals : {Absent},
   src : {FALSE},
   tests : {FALSE},
   analysis : AnalysisFiles]

Contents ==
  RequirementsContents \cup ImplementationContents \cup AnalysisContents

RECURSIVE parseAssumptionLines(_)
parseAssumptionLines(ls) ==
  IF ls = <<>> THEN <<>>
  ELSE LET line == Head(ls)
           rest == parseAssumptionLines(Tail(ls))
       IN IF line.heading
          THEN <<[criticality |->
                     IF line.criticality = NoMatch THEN DefaultCriticality
                     ELSE line.criticality,
                  validated |-> line.validated]>> \o rest
          ELSE rest

\* parseAssumptions(content['ASSUMPTIONS.md'] || '')
parseAssumptions(text) == parseAssumptionLines(text.lines)

\* NaN > 0.7 is false
IsCritical(a) == a.criticality # NotANumber /\ a.criticality > CriticalAbove
IsValidated(a) == a.validated

\* validated.length / critical.length >= 0.8; 0 / 0 is NaN, and NaN >= 0.8
\* is false
RateAtLeast(validated, critical, rate) ==
  critical > 0 /\ 100 * validated >= rate * critical

checkRequirementsComplete(c) ==
  LET hasRequirements == c.requirements # Absent
                           /\ c.requirements > MinRequirementsLength
      hasAssumptions == c.assumptions.exists /\ Len(c.assumptions.lines) > 0
      hasGoals == c.goals # Absent /\ c.goals > 0
      assumptions == parseAssumptions(c.assumptions)
      critical == SelectSeq(assumptions, IsCritical)
      validated == SelectSeq(critical, IsValidated)
      complete == hasRequirements /\ hasAssumptions /\ hasGoals
                    /\ RateAtLeast(Len(validated), Len(critical), RequiredRate)
  IN [complete |-> complete,
      reason |-> IF complete THEN "Requirements stage complete"
                 ELSE "Requirements incomplete",
      hasRequirements |-> hasRequirements,
      hasAssumptions |-> hasAssumptions,
      hasGoals |-> hasGoals,
      validated |-> Len(validated),
      critical |-> Len(critical)]

NoVerdict ==
  [complete |-> FALSE, reason |-> "none", hasRequirements |-> FALSE,
   hasAssumptions |-> FALSE, hasGoals |-> FALSE, validated |-> 0,
   critical |-> 0]

EmptyContent ==
  [requirements |-> Absent, assumptions |-> NoText, goals |-> Absent,
   src |-> FALSE, tests |-> FALSE, analysis |-> NoAnalysisFiles]

\* validate-completeness of analysisWorkflow, on what the four 'Read file'
\* calls return.  /##.*Unknown/g also matches the section heading
\* "## Biggest Unknowns".
validateCompleteness(files) ==
  LET analysis == files.analysis
      mvp == files.mvp
      competitive == files.competitive
      risks == files.risks
      hasAnalysis == analysis.exists /\ analysis.phrase
      hasMVP == mvp.exists /\ mvp.phrase
      hasCompetitive == competitive.exists
                          /\ competitive.length > MinCompetitiveLength
      hasRisks == risks.exists /\ risks.phrase
      unknownsCount == analysis.entries + (IF analysis.phrase THEN 1 ELSE 0)
      risksCount == risks.entries
      competitorsCount == competitive.entries
      complete == hasAnalysis /\ hasMVP /\ hasCompetitive /\ hasRisks
                    /\ unknownsCount >= MinUnknowns
                    /\ risksCount >= MinRisks
                    /\ competitorsCount >= MinCompetitors
  IN [complete |-> complete,
      hasAnalysis |-> hasAnalysis, hasMVP |-> hasMVP,
      hasCompetitive |-> hasCompetitive, hasRisks |-> hasRisks,
      unknownsCount |-> unknownsCount, risksCount |-> risksCount,
      competitorsCount |-> competitorsCount,
      reason |-> IF complete THEN "Analysis phase complete"
                 ELSE "Incomplete analysis - need more depth"]

NoAnalysisVerdict ==
  [complete |-> FALSE, hasAnalysis |-> FALSE, hasMVP |-> FALSE,
   hasCompetitive |-> FALSE, hasRisks |-> FALSE, unknownsCount |-> 0,
   risksCount |-> 0, competitorsCount |-> 0, reason |-> "none"]

NoStageVerdict == [stage |-> "none", check |-> NoVerdict]

InitEval ==
  /\ content \in Contents
  /\ verdict = NoVerdict
  /\ analysisVerdict = NoAnalysisVerdict
  /\ stageVerdict = NoStageVerdict

\* check-completeness on the requirements branch
EvaluateRequirements ==
  /\ verdict = NoVerdict
  /\ verdict' = checkRequirementsComplete(content)
  /\ UNCHANGED <<content, analysisVerdict, stageVerdict>>
  /\ UNCHANGED <<ledgerVars, flowVars, wireVars, ideaVars, agentVars, pullVars, toolVars>>


(***************************************************************************)
(* Stage progression: the waterfall-progression workflow                   *)
(***************************************************************************)
\* two invocations, so that a second event can arrive while the first runs
Runs == {1, 2}

\* a branch name is kept as its path segments: implementation/develop is
\* <<"implementation", "develop">>
Refs ==
  {<<stages[i]>> : i \in 1..Len(stages)}
    \cup {<<"implementation", "develop">>, <<"implementation", "production">>,
          <<DefaultBranch>>}

\* the branches whose update events are delivered in this model
TriggerRefs ==
  {<<"requirements">>, <<"analysis">>, <<"implementation", "develop">>,
   <<"deployment">>, <<DefaultBranch>>}

IndexOf(current) ==
  IF \E i \in 1..Len(stages) : stages[i] = current
  THEN (CHOOSE i \in 1..Len(stages) : stages[i] = current) - 1
  ELSE -1

\* stages[index + 1] of the zero-based array, for index < stages.length - 1
getNextStage(current) ==
  LET index == IndexOf(current)
  IN IF index < Len(stages) - 1 THEN stages[index + 2] ELSE "deployment"

checkImplementationCompleteEither(c) ==
  LET hasCode == c.src
      hasTests == c.tests
  IN [complete |-> hasCode \/ hasTests,
      reason |-> IF hasCode /\ hasTests THEN "Implementation complete"
                 ELSE "Missing code or tests",
      hasRequirements |-> FALSE, hasAssumptions |-> FALSE,
      hasGoals |-> FALSE, validated |-> 0, critical |-> 0]
checkImplementationComplete(c) ==
  LET hasCode == c.src
      hasTests == c.tests
  IN [complete |-> hasCode /\ hasTests,
      reason |-> IF hasCode /\ hasTests THEN "Implementation complete"
                 ELSE "Missing code or tests",
      hasRequirements |-> FALSE, hasAssumptions |-> FALSE,
      hasGoals |-> FALSE, validated |-> 0, critical |-> 0]

StageCheckNotImplemented ==
  [complete |-> FALSE, reason |-> "Stage check not implemented",
   hasRequirements |-> FALSE, hasAssumptions |-> FALSE, hasGoals |-> FALSE,
   validated |-> 0, critical |-> 0]

\* the switch of check-completeness
checkCompletenessByPulls(currentStage, c) ==
  IF prs # <<>> THEN StageCheckNotImplemented
  ELSE IF currentStage = "requirements" THEN checkRequirementsComplete(c)
  ELSE IF currentStage = "implementation" THEN checkImplementationComplete(c)
  ELSE StageCheckNotImplemented
checkCompletenessLastStageToo(currentStage, c) ==
  CASE currentStage = "requirements" -> checkRequirementsComplete(c)
    [] currentStage = "implementation" -> checkImplementationComplete(c)
    [] currentStage = "deployment" ->
         [StageCheckNotImplemented EXCEPT !.complete = TRUE]
    [] OTHER -> StageCheckNotImplemented
checkCompleteness(currentStage, c) ==
  CASE currentStage = "requirements" -> checkRequirementsComplete(c)
    [] currentStage = "implementation" -> checkImplementationComplete(c)
    [] OTHER -> StageCheckNotImplemented

\* what the branch of a stage holds: the artifacts of the stage, or nothing
BranchContents(stage) ==
  {EmptyContent} \cup
    CASE stage = "analysis" -> AnalysisContents
      [] stage = "implementation" -> ImplementationContents
      [] OTHER -> {}

\* check-completeness on the branch of a stage after requirements
CheckStage(stage) ==
  /\ stage # "requirements"
  /\ content \in BranchContents(stage)
  /\ stageVerdict = NoStageVerdict
  /\ stageVerdict' = [stage |-> stage,
                      check |-> checkCompleteness(stage, content)]
  /\ UNCHANGED <<content, verdict, analysisVerdict>>
  /\ UNCHANGED <<ledgerVars, flowVars, wireVars, ideaVars, agentVars, pullVars, toolVars>>

\* validate-completeness of analysisWorkflow on the analysis branch
ValidateCompleteness ==
  /\ content \in AnalysisContents
  /\ analysisVerdict = NoAnalysisVerdict
  /\ analysisVerdict' = validateCompleteness(content.analysis)
  /\ UNCHANGED <<content, verdict, stageVerdict>>
  /\ UNCHANGED <<ledgerVars, flowVars, wireVars, ideaVars, agentVars, pullVars, toolVars>>

\* artifact sets that a requirements branch and an implementation branch
\* hold in this model
ValidatedLine == [heading |-> TRUE, criticality |-> 80, validated |-> TRUE]
OpenLine == [heading |-> TRUE, criticality |-> 80, validated |-> FALSE]

RequirementsArtifacts(ls) ==
  [requirements |-> MinRequirementsLength + 1,
   assumptions |-> [exists |-> TRUE, lines |-> ls],
   goals |-> 1, src |-> FALSE, tests |-> FALSE, analysis |-> NoAnalysisFiles]

ImplementationArtifacts(hasSrc, hasTests) ==
  [requirements |-> Absent, assumptions |-> NoText, goals |-> Absent,
   src |-> hasSrc, tests |-> hasTests, analysis |-> NoAnalysisFiles]

WritableArtifacts(ref) ==
  CASE ref = <<"requirements">> ->
         {RequirementsArtifacts(<<ValidatedLine>>),
          RequirementsArtifacts(<<OpenLine>>)}
    [] ref = <<"implementation", "develop">> ->
         {ImplementationArtifacts(TRUE, TRUE),
          ImplementationArtifacts(TRUE, FALSE)}
    [] OTHER -> {}

NoReview == [done |-> FALSE, approved |-> FALSE, confidence |-> 0]
AutoMergeAbove == 80
Confidences == {80, 90}
\* what reviewPR answers, and the fallback { approved: false, confidence: 0 }
ReviewFallback == [approved |-> FALSE, confidence |-> 0]
Reviews ==
  [approved : BOOLEAN, confidence : Confidences] \cup {ReviewFallback}

IdleRun ==
  [step |-> "idle", id |-> 0, ref |-> <<>>, currentStage |-> "", nextStage |-> "",
   content |-> EmptyContent, fresh |-> FALSE,
   checked |-> FALSE, check |-> NoVerdict,
   generated |-> FALSE, decisions |-> {}, committed |-> FALSE, pr |-> 0,
   faulted |-> {},
   review |-> NoReview, merged |-> FALSE]

InitFlow ==
  /\ artifacts = [ref \in Refs |-> EmptyContent]
  /\ run = [r \in Runs |-> IdleRun]
  /\ prs = <<>>
  /\ ntriggers = 0
  /\ effects = {}
  /\ verdictsOf = [ref \in Refs |-> {}]
  /\ evaluatedComplete = {}
  /\ generatedFor = {}

\* the founder or a stage agent writes files on a branch
WriteArtifacts(ref, c) ==
  /\ c \in WritableArtifacts(ref)
  /\ artifacts[ref] # c
  /\ artifacts' = [artifacts EXCEPT ![ref] = c]
  /\ verdictsOf' = [verdictsOf EXCEPT ![ref] = {}]
  /\ run' = [r \in Runs |->
               IF run[r].ref = ref THEN [run[r] EXCEPT !.fresh = FALSE]
               ELSE run[r]]
  /\ UNCHANGED <<prs, ntriggers, effects, hasLoadAllFiles, evaluatedComplete,
                 generatedFor>>
  /\ UNCHANGED <<ledgerVars, evalVars, wireVars, ideaVars, agentVars, pullVars, toolVars>>

Free(r) == run[r].step \in {"idle", "end", "failed"}

\* a branch-update event starts an invocation, in the first free slot
Trigger(r, ref) ==
  /\ Free(r)
  /\ \A q \in Runs : q < r => ~Free(q)
  /\ ntriggers < MaxTriggers
  /\ ntriggers' = ntriggers + 1
  /\ run' = [run EXCEPT ![r] = [IdleRun EXCEPT !.step = "detect-stage",
                                               !.id = ntriggers + 1,
                                               !.ref = ref]]
  /\ UNCHANGED <<artifacts, prs, effects, hasLoadAllFiles, verdictsOf,
                 evaluatedComplete, generatedFor>>
  /\ UNCHANGED <<ledgerVars, evalVars, wireVars, ideaVars, agentVars, pullVars, toolVars>>

DetectStage(r) ==
  /\ run[r].step = "detect-stage"
  /\ LET stage == Head(run[r].ref)
     IN run' = [run EXCEPT ![r].currentStage = stage,
                           ![r].nextStage = getNextStage(stage),
                           ![r].step = "load-content"]
  /\ UNCHANGED <<artifacts, prs, ntriggers, effects, hasLoadAllFiles,
                 verdictsOf, evaluatedComplete, generatedFor>>
  /\ UNCHANGED <<ledgerVars, evalVars, wireVars, ideaVars, agentVars, pullVars, toolVars>>

\* github.loadAllFiles(repo, branch): the files now on the branch
loadAllFiles(branch) == artifacts[branch]

\* content = (await github.loadAllFiles?.(repo, branch)) || {}: the files, or
\* the empty object when the client has no such method
LoadedContent(branch) ==
  IF hasLoadAllFiles THEN loadAllFiles(branch) ELSE EmptyContent

LoadContent(r) ==
  /\ run[r].step = "load-content"
  /\ run' = [run EXCEPT ![r].content = LoadedContent(run[r].ref),
                        ![r].fresh = TRUE,
                        ![r].step = "check-completeness"]
  /\ UNCHANGED <<artifacts, prs, ntriggers, effects, hasLoadAllFiles,
                 verdictsOf, evaluatedComplete, generatedFor>>
  /\ UNCHANGED <<ledgerVars, evalVars, wireVars, ideaVars, agentVars, pullVars, toolVars>>

CheckCompleteness(r) ==
  /\ run[r].step = "check-completeness"
  /\ LET result == checkCompleteness(run[r].currentStage, run[r].content)
     IN /\ run' = [run EXCEPT ![r].check = result,
                              ![r].checked = TRUE,
                              ![r].step = "generate-next-stage"]
        /\ evaluatedComplete' =
             IF result.complete
             THEN evaluatedComplete \cup {run[r].currentStage}
             ELSE evaluatedComplete
        /\ verdictsOf' =
             IF run[r].fresh
             THEN [verdictsOf EXCEPT ![run[r].ref] = @ \cup {result}]
             ELSE verdictsOf
  /\ UNCHANGED <<artifacts, prs, ntriggers, effects, hasLoadAllFiles,
                 generatedFor>>
  /\ UNCHANGED <<ledgerVars, evalVars, wireVars, ideaVars, agentVars, pullVars, toolVars>>

\* the conditions under which the workflow runs a step
GenerateConditionAlways(r) == TRUE
GenerateCondition(r) == run[r].check.complete
CommitCondition(r) == run[r].generated
CreatePRCondition(r) == run[r].committed
AutoReviewConditionAlways(r) == TRUE
AutoReviewCondition(r) == run[r].pr # 0

Did(r, what) == [id |-> run[r].id, what |-> what]

\* how an awaited call of an agent ends: with an answer, with an error, or
\* with nothing (the optional call finds no such method, or the answer is
\* falsy)
CallOutcomes == {"answer", "throws", "nothing"}

\* the names of the decisions that generated content may hold
\* (generated.decisions, which generatePRBody lists)
EmbeddedDecisions == {{}, {<<"use", "database">>}}

\* agents.cofounder.generateStageContent: answers a candidate or throws
GenerateNextStage(r) ==
  /\ run[r].step = "generate-next-stage"
  /\ IF GenerateCondition(r)
     THEN \E outcome \in CallOutcomes, ds \in EmbeddedDecisions :
            /\ generatedFor' = generatedFor \cup {run[r].nextStage}
            /\ effects' = effects \cup {Did(r, "generate")}
            /\ outcome # "answer" => ds = {}
            /\ run' =
                 CASE outcome = "answer" ->
                        [run EXCEPT ![r].generated = TRUE,
                                    ![r].decisions = ds,
                                    ![r].step = "commit-to-next-stage"]
                   [] outcome = "throws" ->
                        [run EXCEPT ![r].faulted = @ \cup {"generator"},
                                    ![r].step = "failed"]
                   [] outcome = "nothing" ->
                        \* generated = undefined || { files: [] }
                        [run EXCEPT ![r].faulted = @ \cup {"generator"},
                                    ![r].generated = TRUE,
                                    ![r].step = "commit-to-next-stage"]
     ELSE /\ run' = [run EXCEPT ![r].step = "commit-to-next-stage"]
          /\ UNCHANGED <<generatedFor, effects>>
  /\ UNCHANGED <<artifacts, prs, ntriggers, hasLoadAllFiles, verdictsOf,
                 evaluatedComplete>>
  /\ UNCHANGED <<ledgerVars, evalVars, wireVars, ideaVars, agentVars, pullVars, toolVars>>

\* github.commitFiles(repo, nextStage, generated.files, message)
CommitToNextStage(r) ==
  /\ run[r].step = "commit-to-next-stage"
  /\ IF CommitCondition(r)
     THEN /\ run' = [run EXCEPT ![r].committed = TRUE, ![r].step = "create-pr"]
          /\ effects' = effects \cup {Did(r, "commit")}
     ELSE /\ run' = [run EXCEPT ![r].step = "create-pr"]
          /\ UNCHANGED effects
  /\ UNCHANGED <<artifacts, prs, ntriggers, hasLoadAllFiles, verdictsOf,
                 evaluatedComplete, generatedFor>>
  /\ UNCHANGED <<ledgerVars, evalVars, wireVars, ideaVars, agentVars, pullVars, toolVars>>

\* pulls.create is refused (422) when head and base are the same branch and
\* when an open pull request of the same head and base exists
PullRefusedSameBranch(head, base) == head = base
PullRefused(head, base) ==
  \/ head = base
  \/ \E i \in 1..Len(prs) :
       prs[i].head = head /\ prs[i].base = base /\ prs[i].state = "open"

\* createStagePR(repo, fromStage, toStage, content): head and base of the
\* pull request
PullHead(fromStage, toStage) == toStage
PullBaseBackward(fromStage, toStage) == fromStage
PullBase(fromStage, toStage) == getNextStage(toStage)

\* create-pr: createStagePR(repo, currentStage, nextStage, generated)
CreatePR(r) ==
  /\ run[r].step = "create-pr"
  /\ IF CreatePRCondition(r)
     THEN LET head == PullHead(run[r].currentStage, run[r].nextStage)
              base == PullBase(run[r].currentStage, run[r].nextStage)
          IN IF PullRefused(head, base)
             THEN /\ run' = [run EXCEPT ![r].step = "failed"]
                  /\ UNCHANGED <<prs, effects>>
             ELSE /\ prs' = Append(prs, [head |-> head, base |-> base,
                                         from |-> run[r].currentStage,
                                         state |-> "open"])
                  /\ effects' = effects \cup {Did(r, "pr")}
                  /\ run' = [run EXCEPT ![r].pr = Len(prs) + 1,
                                        ![r].step = "auto-review"]
     ELSE /\ run' = [run EXCEPT ![r].step = "auto-review"]
          /\ UNCHANGED <<prs, effects>>
  /\ UNCHANGED <<artifacts, ntriggers, hasLoadAllFiles, verdictsOf,
                 evaluatedComplete, generatedFor>>
  /\ UNCHANGED <<ledgerVars, evalVars, wireVars, ideaVars, agentVars, pullVars, toolVars>>

\* agents.cofounder.reviewPR(pr), then the merge decision
AutoReview(r) ==
  /\ run[r].step = "auto-review"
  /\ IF AutoReviewCondition(r)
     THEN \E outcome \in CallOutcomes, review \in Reviews :
            /\ (outcome = "answer") <=> (review # ReviewFallback)
            /\ run' =
                 IF outcome = "throws"
                 THEN [run EXCEPT ![r].faulted = @ \cup {"reviewer"},
                                  ![r].step = "failed"]
                 ELSE [run EXCEPT
                         ![r].faulted = IF outcome = "nothing"
                                        THEN @ \cup {"reviewer"} ELSE @,
                         ![r].review = [done |-> TRUE,
                                        approved |-> review.approved,
                                        confidence |-> review.confidence],
                         ![r].merged = review.approved
                                         /\ review.confidence > AutoMergeAbove,
                         ![r].step = "end"]
            /\ effects' = effects \cup {Did(r, "review")}
     ELSE /\ run' = [run EXCEPT ![r].step = "end"]
          /\ UNCHANGED effects
  /\ UNCHANGED <<artifacts, prs, ntriggers, hasLoadAllFiles, verdictsOf,
                 evaluatedComplete, generatedFor>>
  /\ UNCHANGED <<ledgerVars, evalVars, wireVars, ideaVars, agentVars, pullVars, toolVars>>

(***************************************************************************)
(* POST /ideas/:id/execute-workflow                                        *)
(***************************************************************************)
\* The route runs requirementsWorkflow or analysisWorkflow for the stage of
\* the request body: the stage agent writes the deliverables and the stage
\* summary on the stage branch, and validate-completeness judges what the
\* agent wrote.
ExecuteWorkflow(stage, complete) ==
  /\ stage \in {"requirements", "analysis"}
  /\ generatedFor' = generatedFor \cup {stage}
  /\ evaluatedComplete' =
       IF complete THEN evaluatedComplete \cup {stage} ELSE evaluatedComplete
  /\ <<generatedFor', evaluatedComplete'>> # <<generatedFor, evaluatedComplete>>
  /\ UNCHANGED <<artifacts, run, prs, ntriggers, effects, hasLoadAllFiles,
                 verdictsOf>>
  /\ UNCHANGED <<ledgerVars, evalVars, wireVars, ideaVars, agentVars, pullVars, toolVars>>

\* the push-triggered workflow and the writes that trigger it
NextWaterfall ==
  \/ \E ref \in Refs : \E c \in WritableArtifacts(ref) : WriteArtifacts(ref, c)
  \/ \E r \in Runs, ref \in TriggerRefs : Trigger(r, ref)
  \/ \E r \in Runs : DetectStage(r)
  \/ \E r \in Runs : LoadContent(r)
  \/ \E r \in Runs : CheckCompleteness(r)
  \/ \E r \in Runs : GenerateNextStage(r)
  \/ \E r \in Runs : CommitToNextStage(r)
  \/ \E r \in Runs : CreatePR(r)
  \/ \E r \in Runs : AutoReview(r)

NextFlow ==
  \/ NextWaterfall
  \/ \E stage \in StageSet, complete \in BOOLEAN : ExecuteWorkflow(stage, complete)

(***************************************************************************)
(* Idea creation: GitHubFuturesClient.createIdea and the create-idea       *)
(* workflow.  A ref is kept as its path segments.                          *)
(***************************************************************************)
Ideas == 1..NumIdeas

StageRefs(n) == [i \in 1..n |-> <<stages[i]>>]

\* the refs that createWaterfallBranches creates, in its order
ClientRefs ==
  StageRefs(Len(stages))
    \o << <<"implementation", "develop">>, <<"implementation", "production">> >>

\* the refs that create-waterfall-branches of the workflow creates
WorkflowStages == 6
WorkflowRefs == StageRefs(WorkflowStages)

RefsToCreate(via) == IF via = "createIdea" THEN ClientRefs ELSE WorkflowRefs

\* git.createRef is refused (422) when the ref exists and when it would
\* lie under, or above, an existing ref: refs/heads/a and refs/heads/a/b
\* cannot both exist
RefRefused(refs, ref) ==
  \E e \in refs : IsPrefix(e, ref) \/ IsPrefix(ref, e)

NoIdea == [via |-> "none", status |-> "none", refs |-> {}, next |-> 0]

InitIdea == idea = [i \in Ideas |-> NoIdea]

\* repos.createForAuthenticatedUser with auto_init: the default branch
CreateRepository(i, via) ==
  /\ idea[i].status = "none"
  /\ idea' = [idea EXCEPT ![i] = [via |-> via, status |-> "branches",
                                  refs |-> {<<DefaultBranch>>}, next |-> 1]]
  /\ UNCHANGED <<ledgerVars, evalVars, flowVars, wireVars, agentVars, pullVars, toolVars>>

\* one git.createRef of the branch loop; an error ends the creation
CreateRef(i) ==
  /\ idea[i].status = "branches"
  /\ idea[i].next <= Len(RefsToCreate(idea[i].via))
  /\ LET ref == RefsToCreate(idea[i].via)[idea[i].next]
     IN idea' = IF RefRefused(idea[i].refs, ref)
                THEN [idea EXCEPT ![i].status = "failed"]
                ELSE [idea EXCEPT ![i].refs = @ \cup {ref},
                                  ![i].next = @ + 1]
  /\ UNCHANGED <<ledgerVars, evalVars, flowVars, wireVars, agentVars, pullVars, toolVars>>

\* initializeRequirements / initialize-requirements, after the branches
InitializeRequirements(i) ==
  /\ idea[i].status = "branches"
  /\ idea[i].next > Len(RefsToCreate(idea[i].via))
  /\ idea' = [idea EXCEPT ![i].status = "created"]
  /\ UNCHANGED <<ledgerVars, evalVars, flowVars, wireVars, agentVars, pullVars, toolVars>>

(***************************************************************************)
(* BaseStageAgent and its tools.  A file is a sequence of text blocks.     *)
(***************************************************************************)
\* StageAgentConfig.stage
AgentStages ==
  {"requirements", "analysis", "design", "implementation", "testing",
   "validation"}

FileNames == {"README.md", "DECISIONS.md"}
Texts == {<<"v1">>, <<"v2">>}

NoCall == [tool |-> "none", branch |-> "", success |-> FALSE]
NoAgent == [stage |-> "", last |-> NoCall]

InitAgent ==
  /\ agent = NoAgent
  /\ tree = [b \in Branches |-> [f \in FileNames |-> NoFile]]

\* new BaseStageAgent(config): this.stage = config.stage
CreateAgent(stage) ==
  /\ agent = NoAgent
  /\ agent' = [NoAgent EXCEPT !.stage = stage]
  /\ UNCHANGED tree
  /\ UNCHANGED <<ledgerVars, evalVars, flowVars, wireVars, ideaVars, pullVars, toolVars>>

\* the branch that a tool of the agent names in its requests
ToolBranchOfNextStage(stage) == getNextStage(stage)
ToolBranch(stage) == stage

Called(tool, branch, success) ==
  [agent EXCEPT !.last = [tool |-> tool, branch |-> branch,
                          success |-> success]]

\* 'Read file from current stage branch'
ReadFile(filename) ==
  /\ agent.stage # ""
  /\ LET branch == ToolBranch(agent.stage)
     IN agent' = Called("read", branch, tree[branch][filename].exists)
  /\ agent' # agent
  /\ UNCHANGED tree
  /\ UNCHANGED <<ledgerVars, evalVars, flowVars, wireVars, ideaVars, pullVars, toolVars>>

\* 'Write or update file in current stage branch'
WriteTo(branch, filename, text) ==
  [tree EXCEPT ![branch][filename] = File(text)]

WriteFile(filename, text) ==
  /\ agent.stage # ""
  /\ LET branch == ToolBranch(agent.stage)
     IN /\ tree' = WriteTo(branch, filename, text)
        /\ agent' = Called("write", branch, TRUE)
  /\ <<agent, tree>>' # <<agent, tree>>
  /\ UNCHANGED <<ledgerVars, evalVars, flowVars, wireVars, ideaVars, pullVars, toolVars>>

\* 'List files in current stage branch'
ListFiles ==
  /\ agent.stage # ""
  /\ agent' = Called("list", ToolBranch(agent.stage), TRUE)
  /\ agent' # agent
  /\ UNCHANGED tree
  /\ UNCHANGED <<ledgerVars, evalVars, flowVars, wireVars, ideaVars, pullVars, toolVars>>

\* 'Make a decision (creates a DECISIONS.md entry)': read DECISIONS.md of
\* the branch, append the entry, write it with the write tool
MakeDecisionEntry ==
  /\ agent.stage # ""
  /\ LET branch == ToolBranch(agent.stage)
         file == tree[branch]["DECISIONS.md"]
         currentContent == IF file.exists THEN file.entries
                           ELSE <<"# Decisions Log">>
         newContent == Append(currentContent, "## Decision")
     IN /\ Len(newContent) <= MaxBlocks
        /\ tree' = WriteTo(branch, "DECISIONS.md", newContent)
        /\ agent' = Called("decision", branch, TRUE)
  /\ UNCHANGED <<ledgerVars, evalVars, flowVars, wireVars, ideaVars, pullVars, toolVars>>

(***************************************************************************)
(* GitHubFuturesClient.createStagePR called for a transition               *)
(***************************************************************************)
NoRequest == [from |-> "", to |-> "", head |-> "", base |-> "", opened |-> FALSE]

InitPull == asked = NoRequest

\* createStagePR(repo, fromStage, toStage, content) for the transition from
\* a stage to its successor
CreateStagePR(fromStage) ==
  LET toStage == getNextStage(fromStage)
      head == PullHead(fromStage, toStage)
      base == PullBase(fromStage, toStage)
      refused == PullRefused(head, base)
  IN /\ asked' = [from |-> fromStage, to |-> toStage, head |-> head,
                  base |-> base, opened |-> ~refused]
     /\ prs' = IF refused THEN prs
               ELSE Append(prs, [head |-> head, base |-> base,
                                 from |-> fromStage, state |-> "open"])
     /\ <<asked, prs>>' # <<asked, prs>>
     /\ UNCHANGED <<artifacts, run, ntriggers, effects, hasLoadAllFiles,
                    verdictsOf, evaluatedComplete, generatedFor>>
     /\ UNCHANGED <<ledgerVars, evalVars, wireVars, ideaVars, agentVars, toolVars>>

(***************************************************************************)
(* The decision wire format: the commit message that makeDecision writes   *)
(* and parseDecisionFromCommit reads.  A text is a sequence of tokens; ":" *)
(* and the line feed are tokens of their own.                              *)
(***************************************************************************)
LF == "\n"

\* `${number}` and parseFloat, for the numbers of the model
WireNumbers == {5, 85, 90, 100}
NumberText(n) ==
  CASE n = 5 -> "0.05" [] n = 85 -> "0.85" [] n = 90 -> "0.9" [] n = 100 -> "1"

parseFloat(text) ==
  IF text # <<>> /\ \E n \in WireNumbers : NumberText(n) = Head(text)
  THEN CHOOSE n \in WireNumbers : NumberText(n) = Head(text)
  ELSE NotANumber

\* alternatives.join(', ')
RECURSIVE JoinAlternatives(_)
JoinAlternatives(alternatives) ==
  IF alternatives = <<>> THEN <<>>
  ELSE IF Len(alternatives) = 1 THEN Head(alternatives)
  ELSE Head(alternatives) \o <<",">> \o JoinAlternatives(Tail(alternatives))

\* the decisions handed to makeDecision, with every field of the message
WireDecisions ==
  [name : Names,
   type : {<<"technical">>},
   alternatives : {<<>>, <<<<"MySQL">>>>, <<<<"MySQL">>, <<"MongoDB">>>>},
   chosen : {<<"PostgreSQL">>, <<"PostgreSQL", ":", "15">>},
   reason : {<<"ACID">>, <<"ACID", ":", "needed">>,
             <<"ACID", LF, "Chosen", ":", "MongoDB">>},
   confidence : {85, 100},
   revisitProbability : {5, 90}]

\* the template of makeDecision's commit message
commitMessageText(decision) ==
  <<"decision", ":">> \o decision.name \o <<LF, LF>>
    \o <<"Decision Type", ":">> \o decision.type \o <<LF>>
    \o <<"Alternatives Considered", ":">>
    \o JoinAlternatives(decision.alternatives) \o <<LF>>
    \o <<"Chosen", ":">> \o decision.chosen \o <<LF>>
    \o <<"Reason", ":">> \o decision.reason \o <<LF>>
    \o <<"Confidence", ":", NumberText(decision.confidence), LF>>
    \o <<"Revisit Probability", ":",
         NumberText(decision.revisitProbability), LF>>
    \o <<"Timestamp", ":", "2026-11-06T12", ":", "00", ":", "00.000Z", LF>>

\* message.split('\n')
RECURSIVE SplitLines(_, _)
SplitLines(text, line) ==
  IF text = <<>> THEN <<line>>
  ELSE IF Head(text) = LF THEN <<line>> \o SplitLines(Tail(text), <<>>)
  ELSE SplitLines(Tail(text), Append(line, Head(text)))

\* line.startsWith(label + ':') and line.split(':')[1]
StartsWith(line, label) ==
  Len(line) >= 2 /\ line[1] = label /\ line[2] = ":"
SplitColon1(line) == UpToColon(Tail(Tail(line)))

\* `undefined`, for a text, a list of texts and a number
UndefinedText == <<"undefined">>
UndefinedList == <<UndefinedText>>
EmptyObject ==
  [name |-> UndefinedText, type |-> UndefinedText,
   alternatives |-> UndefinedList, chosen |-> UndefinedText,
   reason |-> UndefinedText, confidence |-> Absent,
   revisitProbability |-> Absent]

\* the loop of parseDecisionFromCommit over the lines of the message
RECURSIVE parseLines(_, _)
parseLines(lines, decision) ==
  IF lines = <<>> THEN decision
  ELSE LET line == Head(lines)
       IN parseLines(Tail(lines),
            IF StartsWith(line, "Decision Type")
            THEN [decision EXCEPT !.type = SplitColon1(line)]
            ELSE IF StartsWith(line, "Chosen")
            THEN [decision EXCEPT !.chosen = SplitColon1(line)]
            ELSE IF StartsWith(line, "Confidence")
            THEN [decision EXCEPT !.confidence = parseFloat(SplitColon1(line))]
            ELSE IF StartsWith(line, "Revisit Probability")
            THEN [decision EXCEPT
                    !.revisitProbability = parseFloat(SplitColon1(line))]
            ELSE decision)

parseDecisionText(message) == parseLines(SplitLines(message, <<>>), EmptyObject)

NoWire == [step |-> "none", decision |-> EmptyObject, message |-> <<>>,
           parsed |-> EmptyObject]

InitWire == wire = NoWire

\* a caller composes a decision
ComposeDecision(decision) ==
  /\ wire.step \in {"none", "parsed"}
  /\ wire' = [NoWire EXCEPT !.step = "composed", !.decision = decision]
  /\ UNCHANGED <<ledgerVars, evalVars, flowVars, ideaVars, agentVars, pullVars, toolVars>>

\* makeDecision writes the commit message of the decision
WriteMessage ==
  /\ wire.step = "composed"
  /\ wire' = [wire EXCEPT !.step = "written",
                          !.message = commitMessageText(wire.decision)]
  /\ UNCHANGED <<ledgerVars, evalVars, flowVars, ideaVars, agentVars, pullVars, toolVars>>

\* findDecision parses the commit message it found
ParseMessage ==
  /\ wire.step = "written"
  /\ wire' = [wire EXCEPT !.step = "parsed",
                          !.parsed = parseDecisionText(wire.message)]
  /\ UNCHANGED <<ledgerVars, evalVars, flowVars, ideaVars, agentVars, pullVars, toolVars>>

(***************************************************************************)
(* 'Make a decision' tool calls of stage agents that run at the same time  *)
(***************************************************************************)
\* the stages of the agents that decide at the same time
DecidingStages == {"requirements", "analysis"}

\* the entry that the call of caller p appends
decisionEntry(p) ==
  IF p = 1 THEN "## Decision: database"
  ELSE IF p = 2 THEN "## Decision: hosting"
  ELSE "## Decision: other"

NoToolCall ==
  [step |-> "idle", stage |-> "", currentContent |-> <<>>, sha |-> NoFile,
   success |-> FALSE]

InitTools == deciding = [p \in Callers |-> NoToolCall]

ToolCallInFlight(p) == deciding[p].step \in {"read-content", "read-sha", "write"}

\* the blocks that DECISIONS.md of the branch holds, the heading counted
BlocksOn(stage) ==
  IF tree[stage]["DECISIONS.md"].exists
  THEN Len(tree[stage]["DECISIONS.md"].entries) ELSE 1

\* executeTool of the decision tool of an agent of the stage
DecisionToolCall(p, stage) ==
  /\ ~ToolCallInFlight(p)
  /\ BlocksOn(stage)
       + Cardinality({q \in Callers :
                        ToolCallInFlight(q) /\ deciding[q].stage = stage})
       < MaxBlocks
  /\ deciding' = [deciding EXCEPT ![p] =
                    [NoToolCall EXCEPT !.step = "read-content",
                                       !.stage = stage]]
  /\ UNCHANGED <<agentVars, ledgerVars, evalVars, flowVars, wireVars,
                 ideaVars, pullVars>>

\* repos.getContent of DECISIONS.md in the decision tool: the content that
\* the entry is appended to
ReadDecisionsContent(p) ==
  /\ deciding[p].step = "read-content"
  /\ LET file == tree[ToolBranch(deciding[p].stage)]["DECISIONS.md"]
     IN deciding' = [deciding EXCEPT
                       ![p].currentContent =
                          IF file.exists THEN file.entries
                          ELSE <<"# Decisions Log">>,
                       ![p].step = "read-sha"]
  /\ UNCHANGED <<agentVars, ledgerVars, evalVars, flowVars, wireVars,
                 ideaVars, pullVars>>

\* repos.getContent in the write tool: the sha of the file now on the branch
ReadSha(p) ==
  /\ deciding[p].step = "read-sha"
  /\ deciding' = [deciding EXCEPT
                    ![p].sha = tree[ToolBranch(deciding[p].stage)]["DECISIONS.md"],
                    ![p].step = "write"]
  /\ UNCHANGED <<agentVars, ledgerVars, evalVars, flowVars, wireVars,
                 ideaVars, pullVars>>

\* repos.createOrUpdateFileContents in the write tool: the store takes the
\* write when the sha is that of the file on the branch (no sha for no
\* file), and the tool answers success: false when the store refuses
WriteDecisions(p) ==
  /\ deciding[p].step = "write"
  /\ LET branch == ToolBranch(deciding[p].stage)
         newContent == Append(deciding[p].currentContent, decisionEntry(p))
     IN IF tree[branch]["DECISIONS.md"] = deciding[p].sha
        THEN /\ tree' = WriteTo(branch, "DECISIONS.md", newContent)
             /\ deciding' = [deciding EXCEPT ![p].step = "done",
                                             ![p].success = TRUE]
        ELSE /\ deciding' = [deciding EXCEPT ![p].step = "done",
                                             ![p].success = FALSE]
             /\ UNCHANGED tree
  /\ UNCHANGED agent
  /\ UNCHANGED <<ledgerVars, evalVars, flowVars, wireVars, ideaVars, pullVars>>

ToolsNext ==
  \/ \E p \in Callers, stage \in DecidingStages : DecisionToolCall(p, stage)
  \/ \E p \in Callers : ReadDecisionsContent(p)
  \/ \E p \in Callers : ReadSha(p)
  \/ \E p \in Callers : WriteDecisions(p)

(***************************************************************************)
(* Specifications                                                          *)
(***************************************************************************)
LedgerInit ==
  /\ InitLedger
  /\ content = EmptyContent
  /\ verdict = NoVerdict
  /\ analysisVerdict = NoAnalysisVerdict
  /\ stageVerdict = NoStageVerdict
  /\ InitFlow
  /\ hasLoadAllFiles = FALSE
  /\ InitWire
  /\ InitIdea
  /\ InitAgent
  /\ InitPull
  /\ InitTools

LedgerNext == NextLedger

LedgerSpec == LedgerInit /\ [][LedgerNext]_vars

\* makeDecision and findDecision on a repository whose owner merges stage
\* branches into the default branch
MergedNext ==
  \/ NextLedger
  \/ \E b \in TargetBranches : MergeIntoDefault(b)

MergedSpec == LedgerInit /\ [][MergedNext]_vars

EvaluatorInit ==
  /\ InitLedger
  /\ InitEval
  /\ InitFlow
  /\ hasLoadAllFiles = FALSE
  /\ InitWire
  /\ InitIdea
  /\ InitAgent
  /\ InitPull
  /\ InitTools

EvaluatorNext ==
  \/ EvaluateRequirements
  \/ \E stage \in StageSet : CheckStage(stage)
  \/ ValidateCompleteness

EvaluatorSpec == EvaluatorInit /\ [][EvaluatorNext]_vars

ProgressionInit ==
  /\ InitLedger
  /\ content = EmptyContent
  /\ verdict = NoVerdict
  /\ analysisVerdict = NoAnalysisVerdict
  /\ stageVerdict = NoStageVerdict
  /\ InitFlow
  /\ hasLoadAllFiles \in BOOLEAN
  /\ InitWire
  /\ InitIdea
  /\ InitAgent
  /\ InitPull
  /\ InitTools

ProgressionNext == NextFlow

ProgressionSpec == ProgressionInit /\ [][ProgressionNext]_vars

\* the waterfall-progression workflow without the execute-workflow route
WaterfallNext == NextWaterfall

WaterfallSpec == ProgressionInit /\ [][WaterfallNext]_vars

\* the wire format alone: compose, write, parse
WireNext ==
  \/ \E decision \in WireDecisions : ComposeDecision(decision)
  \/ WriteMessage
  \/ ParseMessage

WireSpec == LedgerInit /\ [][WireNext]_vars

\* idea creation alone
IdeaNext ==
  \/ \E i \in Ideas, via \in {"createIdea", "workflow"} : CreateRepository(i, via)
  \/ \E i \in Ideas : CreateRef(i)
  \/ \E i \in Ideas : InitializeRequirements(i)

IdeaSpec == LedgerInit /\ [][IdeaNext]_vars

\* one stage agent and its tool calls
AgentNext ==
  \/ \E stage \in AgentStages : CreateAgent(stage)
  \/ \E filename \in FileNames : ReadFile(filename)
  \/ \E filename \in FileNames, text \in Texts : WriteFile(filename, text)
  \/ ListFiles
  \/ MakeDecisionEntry

AgentSpec == LedgerInit /\ [][AgentNext]_vars

\* decision tool calls of agents that run at the same time
ToolsSpec == LedgerInit /\ [][ToolsNext]_vars

\* createStagePR for the transitions of the stage order
PullNext == \E fromStage \in StageSet : CreateStagePR(fromStage)

PullSpec == LedgerInit /\ [][PullNext]_vars

(***************************************************************************)
(* Properties of the decision ledger                                       *)
(***************************************************************************)
CallsNamed(n) ==
  Cardinality({i \in 1..Len(history) : history[i].name = n})
  + Cardinality({p \in Callers : InFlight(p) /\ args[p].decision.name = n})

\* C1: two successive makeDecision calls for one name, each proposing a
\* revisit probability below 0.7, return the same chosen value and leave
\* exactly one decision commit for that name.
C1_TwiceSameChosenOneCommit ==
  \A i, j \in 1..Len(history) :
    ( /\ i < j
      /\ history[i].name = history[j].name
      /\ CallsNamed(history[i].name) = 2
      /\ history[i].revisitProbability < RevisitThreshold
      /\ history[j].revisitProbability < RevisitThreshold
      /\ history[i].outcome = "new"
      /\ history[j].outcome \in {"new", "reused"}
      /\ history[j].startedAfter >= i )
    => /\ history[j].chosen = history[i].chosen
       /\ Cardinality(DecisionCommits(history[i].name)) = 1

\* C2: two concurrent makeDecision calls for one name never both observe
\* "no existing decision" and both append.
C2_NoDoubleAppend ==
  \A p, q \in Callers :
    ( /\ p # q
      /\ q \in overlapped[p] /\ p \in overlapped[q]
      /\ args[p].decision.name = args[q].decision.name
      /\ pc[p] \in {"done", "failed"} /\ pc[q] \in {"done", "failed"}
      /\ existing[p] = NoDecision /\ existing[q] = NoDecision )
    => ~(appended[p] /\ appended[q])

\* A record of the log carries no reversal mark and no reference to an
\* earlier record (the commit message has no such field), so no record is
\* superseded: the active records of a name are all its records.
ActiveRecords(n) == RecordsInLogs(n)

EntriesInLogs ==
  {<<b, i>> \in Branches \X (1..MaxCalls) :
      log[b].exists /\ i <= Len(log[b].entries)}

\* C3: per name at most one decision record is active, and every record that
\* was ever appended is still in the decision logs.
C3_OneActiveAllRetained ==
  /\ \A n \in Names : Cardinality(ActiveRecords(n)) <= 1
  /\ Cardinality(EntriesInLogs) = Len(everAppended)
  /\ \A k \in 1..Len(everAppended) :
        \E e \in EntriesInLogs : log[e[1]].entries[e[2]] = everAppended[k]

\* C4: when a decision of the name exists with revisit probability below
\* 0.7, makeDecision returns it (same chosen value) and commits nothing.
C4_ReuseBelowThreshold ==
  \A p \in Callers :
    ( /\ pc[p] = "done"
      /\ overlapped[p] = {}
      /\ priorAtCall[p] # NoDecision
      /\ priorAtCall[p].revisitProbability < RevisitThreshold )
    => /\ ret[p].value.chosen = priorAtCall[p].chosen
       /\ ~appended[p]

\* C5: when a decision of the name exists with revisit probability of 0.7 or
\* more, a second commit is appended only on a blocking-goal signal of the
\* caller; makeDecision takes no such signal, so no call may append.
C5_RevisitNeedsBlockingSignal ==
  \A p \in Callers :
    ( /\ pc[p] = "done"
      /\ overlapped[p] = {}
      /\ priorAtCall[p] # NoDecision
      /\ priorAtCall[p].revisitProbability >= RevisitThreshold )
    => /\ ~appended[p]
       /\ ret[p].value.chosen = priorAtCall[p].chosen

\* C6: findDecision returns the most recent record of the name whenever one
\* was committed on any branch, and absent when none was.
C6_FindsAcrossBranches ==
  findRes # NoFind =>
    IF findRes.committed = NoDecision
    THEN findRes.result = NoDecision
    ELSE /\ findRes.result # NoDecision
         /\ findRes.result.chosen = findRes.committed.chosen
         /\ findRes.result.revisitProbability
              = findRes.committed.revisitProbability


(***************************************************************************)
(* Properties of the completeness evaluators                               *)
(***************************************************************************)
Parsed == parseAssumptions(content.assumptions)
Critical == SelectSeq(Parsed, IsCritical)
ValidatedCritical == SelectSeq(Critical, IsValidated)

\* an artifact exists when its path holds a text that is not empty
AssumptionsExist ==
  content.assumptions.exists /\ Len(content.assumptions.lines) > 0
GoalsExist == content.goals # Absent /\ content.goals > 0
RequirementsLongEnough ==
  content.requirements # Absent /\ content.requirements > MinRequirementsLength

OtherCriteriaMet ==
  /\ RequirementsLongEnough
  /\ AssumptionsExist
  /\ Len(Parsed) >= 1
  /\ GoalsExist

Evaluated == verdict # NoVerdict

\* C9: with no assumption of criticality above 0.7 the critical-validation
\* clause holds vacuously: when the other criteria are met, the verdict is
\* complete.
C9_NoCriticalIsVacuous ==
  (Evaluated /\ OtherCriteriaMet /\ Len(Critical) = 0) => verdict.complete

\* the same equivalence where at least one assumption is critical
CompleteIffCriteriaWhenCritical ==
  (Evaluated /\ Len(Critical) > 0) =>
    ( verdict.complete <=>
        /\ RequirementsLongEnough
        /\ AssumptionsExist
        /\ GoalsExist
        /\ 100 * Len(ValidatedCritical) >= RequiredRate * Len(Critical) )

\* C10: complete iff the requirements artifact exceeds the minimum length,
\* the assumptions and goals artifacts exist, and validated critical over
\* critical is at least 0.8 (a clause that no critical assumption satisfies
\* vacuously), criticality 0.7 not being critical.
C10_CompleteIffCriteria ==
  Evaluated =>
    ( verdict.complete <=>
        /\ RequirementsLongEnough
        /\ AssumptionsExist
        /\ GoalsExist
        /\ 100 * Len(ValidatedCritical) >= RequiredRate * Len(Critical) )

(***************************************************************************)
(* Properties of the stage progression                                     *)
(***************************************************************************)
Predecessor(stage) == stages[IndexOf(stage)]

\* C7: content is generated into a stage only after the stage before it has
\* been evaluated complete, on the push-triggered path and on the
\* execute-workflow route alike.
C7_StageOrder ==
  \A stage \in generatedFor :
    stage = "requirements" \/ Predecessor(stage) \in evaluatedComplete

\* the same order on the push-triggered path alone
StageOrderOfRuns ==
  \A r \in Runs :
    (run[r].generated \/ run[r].committed) =>
      /\ run[r].currentStage \in evaluatedComplete
      /\ run[r].nextStage = getNextStage(run[r].currentStage)
      /\ IndexOf(run[r].nextStage) = IndexOf(run[r].currentStage) + 1

Halted(r) == run[r].checked /\ ~run[r].check.complete

\* C8: an incomplete verdict halts the invocation as a normal outcome: no
\* generation, no commit, no pull request, no review and no merge.
C8_IncompleteHalts ==
  \A r \in Runs :
    Halted(r) =>
      /\ ~run[r].generated
      /\ ~run[r].committed
      /\ run[r].pr = 0
      /\ ~run[r].review.done
      /\ ~run[r].merged
      /\ run[r].step # "failed"
      /\ \A e \in effects : e.id # run[r].id

C8_Witness ==
  \E r \in Runs :
    /\ Halted(r)
    /\ run[r].step = "end"
    /\ run[r].currentStage = "requirements"
    /\ run[r].content = RequirementsArtifacts(<<OpenLine>>)

AnalysisCriteriaMet ==
  /\ content.analysis.analysis.entries >= MinUnknowns
  /\ content.analysis.risks.entries >= MinRisks
  /\ content.analysis.competitive.entries >= MinCompetitors
  /\ content.analysis.mvp.exists

\* validate-completeness of analysisWorkflow answers by the four criteria
WorkflowAnalysisIffCriteria ==
  analysisVerdict # NoAnalysisVerdict =>
    (analysisVerdict.complete <=> AnalysisCriteriaMet)

\* check-completeness of the progression answers by the four criteria
ProgressionAnalysisIffCriteria ==
  stageVerdict.stage = "analysis" =>
    (stageVerdict.check.complete <=> AnalysisCriteriaMet)

\* C12: the analysis evaluator answers complete exactly when the artifacts
\* document at least 5 unknowns, at least 5 risks and at least 3 competitors
\* and an MVP definition exists; so does the progression for an updated
\* analysis branch.
C12_AnalysisCompleteIffCriteria ==
  WorkflowAnalysisIffCriteria /\ ProgressionAnalysisIffCriteria

C13_WitnessIncomplete ==
  /\ stageVerdict.stage = "implementation"
  /\ content.src /\ ~content.tests
  /\ ~stageVerdict.check.complete

\* the words of the reasons that the evaluators give
Words(reason) ==
  CASE reason = "Requirements stage complete" ->
         {"requirements", "stage", "complete"}
    [] reason = "Requirements incomplete" -> {"requirements", "incomplete"}
    [] reason = "Implementation complete" -> {"implementation", "complete"}
    [] reason = "Missing code or tests" -> {"missing", "code", "or", "tests"}
    [] reason = "Stage check not implemented" ->
         {"stage", "check", "not", "implemented"}
    [] reason = "Analysis phase complete" -> {"analysis", "phase", "complete"}
    [] reason = "Incomplete analysis - need more depth" ->
         {"incomplete", "analysis", "need", "more", "depth"}
    [] OTHER -> {}

\* C14: an incomplete verdict names the criteria that failed: too few
\* competitors (as for 4 unknowns, 6 risks and 2 competitors) are cited in
\* the reason of the analysis verdict, and missing goals or assumptions in
\* the reason of the requirements verdict.
C14_ReasonNamesCriteria ==
  /\ ( /\ analysisVerdict # NoAnalysisVerdict
       /\ ~analysisVerdict.complete
       /\ content.analysis.competitive.entries < MinCompetitors )
       => Words(analysisVerdict.reason) \cap {"competitor", "competitors"} # {}
  /\ (Evaluated /\ ~verdict.complete /\ ~verdict.hasGoals)
       => "goals" \in Words(verdict.reason)
  /\ (Evaluated /\ ~verdict.complete /\ ~verdict.hasAssumptions)
       => "assumptions" \in Words(verdict.reason)

\* the scenario of 4 unknowns, 6 risks and 2 competitors has been evaluated
C14_Scenario ==
  /\ analysisVerdict # NoAnalysisVerdict
  /\ content.analysis.analysis.entries = 4
  /\ content.analysis.risks.entries = 6
  /\ content.analysis.competitive.entries = 2

\* an assumption heading without a number after "criticality: "
Malformed ==
  \E i \in 1..Len(content.assumptions.lines) :
    /\ content.assumptions.lines[i].heading
    /\ content.assumptions.lines[i].criticality = NoMatch

\* a missing artifact gives an incomplete verdict, for every evaluator
MissingIsIncomplete ==
  /\ ( /\ Evaluated
       /\ \/ content.requirements = Absent
          \/ ~content.assumptions.exists
          \/ content.goals = Absent )
       => ~verdict.complete
  /\ (stageVerdict.stage # "none" /\ content = EmptyContent)
       => ~stageVerdict.check.complete
  /\ (stageVerdict.stage = "implementation"
        /\ (~content.src \/ ~content.tests))
       => ~stageVerdict.check.complete
  /\ ( /\ analysisVerdict # NoAnalysisVerdict
       /\ \/ ~content.analysis.analysis.exists
          \/ ~content.analysis.mvp.exists
          \/ ~content.analysis.competitive.exists
          \/ ~content.analysis.risks.exists )
       => ~analysisVerdict.complete

\* C15: a missing artifact gives an incomplete verdict and no error, and an
\* assumption entry whose criticality does not parse gives an incomplete
\* verdict whose reason names the parse failure: the entry is neither
\* skipped nor given a default.
C15_MissingOrMalformedIsIncomplete ==
  /\ MissingIsIncomplete
  /\ (Evaluated /\ Malformed) =>
        /\ ~verdict.complete
        /\ Words(verdict.reason) \cap {"parse", "criticality", "malformed"} # {}

\* a requirements branch is judged complete although an entry is malformed
MalformedYetComplete == Evaluated /\ Malformed /\ verdict.complete

C17_MergedIffApproved ==
  \A r \in Runs :
    run[r].review.done =>
      LET approved == run[r].review.approved
                        /\ run[r].review.confidence > AutoMergeAbove
      IN /\ (prs[run[r].pr].state = "merged") <=> approved
         /\ ~approved => (prs[run[r].pr].state = "open" /\ run[r].step = "end")

\* a reviewer's "no" or low confidence leaves the pull request open and ends
\* the invocation normally
UnapprovedStaysOpen ==
  \A r \in Runs :
    ( /\ run[r].review.done
      /\ ~(run[r].review.approved /\ run[r].review.confidence > AutoMergeAbove) )
      => /\ prs[run[r].pr].state = "open"
         /\ run[r].step = "end"
         /\ ~run[r].merged

\* a makeDecision call for the name has finished
PassedThroughMakeDecision(n) ==
  \E i \in 1..Len(history) : history[i].name = n

\* C18: generated content is committed to the next stage branch only after
\* each decision it holds has been passed through makeDecision.
C18_DecisionsReconciledBeforeCommit ==
  \A r \in Runs :
    run[r].committed =>
      \A n \in run[r].decisions : PassedThroughMakeDecision(n)

\* C19: when the generator or the reviewer fails, the invocation stops at
\* that step as failed: it is not carried on with a default result, and
\* after a failed generation nothing is committed and no pull request opened.
C19_FailureAborts ==
  \A r \in Runs :
    run[r].faulted # {} =>
      /\ run[r].step = "failed"
      /\ "generator" \in run[r].faulted =>
            (~run[r].committed /\ run[r].pr = 0)

C21_StepsInOrder ==
  \A r \in Runs :
    /\ run[r].committed => run[r].generated
    /\ run[r].pr # 0 => (run[r].committed /\ Did(r, "pr") \in effects)
    /\ Did(r, "review") \in effects => run[r].pr \in 1..Len(prs)
    /\ run[r].review.done => Did(r, "review") \in effects
    /\ run[r].merged => run[r].review.done
    /\ (run[r].step = "failed" /\ run[r].pr = 0) =>
         (Did(r, "review") \notin effects /\ ~run[r].review.done)

\* one invocation went through all steps to a merge result while another
\* was stopped at create-pr
C21_Witness ==
  \E r1, r2 \in Runs :
    /\ run[r1].step = "end" /\ run[r1].merged /\ run[r1].pr # 0
    /\ Did(r1, "review") \in effects
    /\ run[r2].step = "failed" /\ run[r2].committed /\ run[r2].pr = 0
    /\ run[r2].id # 0

\* the fields of the wire format that a reused decision must give back
RecordedFields ==
  {"type", "alternatives", "chosen", "reason", "confidence",
   "revisitProbability"}

\* the numbers of a decision come back from its commit message
NumbersRoundTrip ==
  wire.step = "parsed" =>
    /\ wire.parsed.confidence = wire.decision.confidence
    /\ wire.parsed.revisitProbability = wire.decision.revisitProbability

\* C22: parsing the commit message written for a decision gives back the
\* recorded fields: type, alternatives, chosen, reason, confidence and
\* revisit probability.
C22_WireFormatRoundTrips ==
  wire.step = "parsed" =>
    \A f \in RecordedFields : wire.parsed[f] = wire.decision[f]

\* a finished call that appended a record although a record of the name
\* existed when it started
Revisited(p) ==
  pc[p] = "done" /\ appended[p] /\ priorAtCall[p] # NoDecision

\* the record that a revisit superseded is still in a decision log, as it
\* was appended
SupersededStays ==
  \A p \in Callers :
    Revisited(p) =>
      \E e \in EntriesInLogs : log[e[1]].entries[e[2]] = priorAtCall[p]

\* C23: the record appended by a revisit is marked as a reversal and names
\* the record it supersedes, and the superseded record stays in the log.
C23_ReversalIsMarked ==
  /\ SupersededStays
  /\ \A p \in Callers :
       Revisited(p) =>
         {"reversal", "supersedes"} \subseteq DOMAIN ret[p].value

\* an invocation whose detect-stage step has answered
Detected(r) == run[r].id # 0 /\ run[r].step # "detect-stage"

\* for a branch of a stage the target is the immediate successor, and
\* deployment, the last stage, stays where it is
SuccessorOfStages ==
  \A r \in Runs :
    (Detected(r) /\ run[r].currentStage \in StageSet) =>
      /\ run[r].nextStage = getNextStage(run[r].currentStage)
      /\ IF run[r].currentStage = "deployment"
         THEN run[r].nextStage = "deployment"
         ELSE IndexOf(run[r].nextStage) = IndexOf(run[r].currentStage) + 1

\* C24: the successor is the next stage of the fixed order for every
\* triggering branch: a stage branch and an implementation sub-branch get
\* the immediate successor of their stage, and a branch that is no stage
\* gets no stage as target.
C24_SuccessorNeverBackward ==
  /\ SuccessorOfStages
  /\ \A r \in Runs :
       (Detected(r) /\ run[r].currentStage \notin StageSet) =>
         run[r].nextStage \notin StageSet

C26_FailedLookupFails ==
  \A p \in Callers :
    lookupFailed[p] =>
      /\ pc[p] \notin {"read", "write"}
      /\ ~appended[p]
      /\ pc[p] \in {"done", "failed"} => ret[p].status = "StoreUnavailable"

\* every record ever appended stands in a decision log
NoEntryLost ==
  /\ Cardinality(EntriesInLogs) = Len(everAppended)
  /\ \A k \in 1..Len(everAppended) :
       \E e \in EntriesInLogs : log[e[1]].entries[e[2]] = everAppended[k]

\* a write step of caller p on a log that changed since p read it
StaleWrite(p) ==
  pc[p] = "write" /\ pc'[p] # "write" /\ log[args[p].branch] # snap[p]

\* C27: when another writer changed the decision log of the branch between
\* the read and the append of makeDecision, the append is rejected as a
\* conflict and the log stays as the other writer left it: no entry is
\* overwritten or lost.
C27_ConflictingWriteRejected ==
  /\ []NoEntryLost
  /\ [][\A p \in Callers :
          StaleWrite(p) =>
            /\ pc'[p] = "failed"
            /\ ret'[p].status = "Conflict"
            /\ UNCHANGED <<log, commits, everAppended>>]_vars

\* a call was rejected as a conflict and the entry of the other writer is
\* in the log it read too early
C27_Witness ==
  \E p \in Callers :
    /\ pc[p] = "failed"
    /\ ret[p].status = "Conflict"
    /\ Len(log[args[p].branch].entries) = Len(snap[p].entries) + 1
    /\ ~appended[p]

\* C28: deployment is terminal: an invocation for the deployment branch
\* calls no generator, commits to no branch, opens no pull request, and
\* has no stage after deployment as its target.
C28_DeploymentIsTerminal ==
  /\ \A r \in Runs :
       run[r].currentStage = "deployment" =>
         /\ run[r].nextStage = "deployment"
         /\ ~run[r].generated
         /\ ~run[r].committed
         /\ run[r].pr = 0
         /\ \A e \in effects : e.id # run[r].id
  /\ \A i \in 1..Len(prs) : prs[i].from # "deployment"

\* an invocation for the deployment branch has run to its end
C28_Witness ==
  \E r \in Runs :
    /\ run[r].ref = <<"deployment">>
    /\ run[r].currentStage = "deployment"
    /\ run[r].checked
    /\ run[r].step = "end"

\* the branches of the seven stages and the two implementation sub-branches
RequiredRefs ==
  {<<stages[i]>> : i \in 1..Len(stages)}
    \cup {<<"implementation", "develop">>, <<"implementation", "production">>}

\* the branch of every stage but the last is made on both ways
StageBranchesMade ==
  \A i \in Ideas :
    idea[i].status \in {"created", "failed"} =>
      \A k \in 1..WorkflowStages : <<stages[k]>> \in idea[i].refs

\* C29: a finished idea creation, by createIdea or by the create-idea
\* workflow, has ended as created and has left a branch for each of the
\* seven stages and the two implementation sub-branches.
C29_AllBranchesCreated ==
  \A i \in Ideas :
    idea[i].status \in {"created", "failed"} =>
      /\ idea[i].status = "created"
      /\ RequiredRefs \subseteq idea[i].refs

\* C30: a stage agent is locked to its stage: each of its read, write,
\* list and decision calls names the branch of its stage, and no step
\* changes a file on the branch of another stage.
C30_AgentLockedToStage ==
  /\ [](agent.last.branch \in {"", agent.stage})
  /\ [](\A b \in Branches \ {agent.stage} :
          \A f \in FileNames : tree[b][f] = NoFile)
  /\ [][\A b \in Branches \ {agent'.stage} : tree'[b] = tree[b]]_vars

\* the analysis agent has written a file and appended a decision entry
C30_Witness ==
  /\ agent.stage = "analysis"
  /\ agent.last.tool = "decision"
  /\ tree["analysis"]["README.md"].exists
  /\ Len(tree["analysis"]["DECISIONS.md"].entries) = MaxBlocks

\* the stages that have a successor
NonTerminalStages == StageSet \ {"deployment"}

\* an artifact set exists that check-completeness finds complete on the stage
CanProgressFrom(stage) ==
  \E c \in Contents : checkCompleteness(stage, c).complete

\* progress is possible from requirements and from implementation
ProgressFromTwoStages ==
  /\ verdict # NoVerdict =>
       checkCompleteness("requirements",
                         RequirementsArtifacts(<<ValidatedLine>>)).complete
  /\ stageVerdict.stage = "implementation" =>
       checkCompleteness("implementation",
                         ImplementationArtifacts(TRUE, TRUE)).complete

\* C31: for every stage but deployment there is an artifact set that a
\* branch update on the stage finds complete, so that content is generated
\* for its successor and an idea can reach deployment.
C31_EveryStageCanProgress ==
  \A stage \in NonTerminalStages :
    stageVerdict.stage = stage => CanProgressFrom(stage)

\* a finished call for a name that had no record, alone and with the store
\* reached
FirstOfName(p) ==
  /\ pc[p] \in {"done", "failed"}
  /\ priorAtCall[p] = NoDecision
  /\ overlapped[p] = {}
  /\ ~lookupFailed[p]

\* the first decision of a name is appended on requirements
FirstAppendsOnRequirements ==
  \A p \in Callers :
    (FirstOfName(p) /\ args[p].branch = "requirements") => appended[p]

\* C32: every stage branch holds a DECISIONS.log, so the first makeDecision
\* of a new name appends its record on whichever stage branch it targets.
C32_LogOnEveryStageBranch ==
  \A p \in Callers :
    (FirstOfName(p) /\ args[p].branch \in StageSet) =>
      /\ log[args[p].branch].exists
      /\ appended[p]

\* no pull request of the store has its head as base
NoPullOnItself ==
  \A i \in 1..Len(prs) : prs[i].head # prs[i].base

CommitStepWrites(r) ==
  (~run[r].committed /\ run'[r].committed) =>
    <<artifacts, commits>>' # <<artifacts, commits>>

\* C34: a transition pull request is opened only if the generator answered a
\* candidate earlier in the same invocation and that candidate was written
\* to the next stage branch; the commit step never reports committed without
\* a write to the store.
C34_PullOnlyAfterWrite ==
  /\ [](\A r \in Runs : run[r].pr # 0 => "generator" \notin run[r].faulted)
  /\ [][\A r \in Runs : CommitStepWrites(r)]_vars


\* C35: the auto-review step reports merged = true only when the transition
\* pull request was merged in the store: an invocation whose result says
\* merged has its pull request in the merged state.
C35_MergedMeansMergedInStore ==
  \A r \in Runs :
    run[r].merged =>
      /\ run[r].pr \in 1..Len(prs)
      /\ prs[run[r].pr].state = "merged"


\* C36: the decision log is append-only: a successful makeDecision leaves
\* the previous content of the branch's DECISIONS.log as a prefix of the new
\* content, which is that content and the new record, no step takes a log
\* away or changes what it holds, and a call that ends with the reused
\* decision leaves every log as it was.
C36_LogAppendOnly ==
  [][/\ \A b \in Branches :
          log[b].exists =>
            (log'[b].exists /\ IsPrefix(log[b].entries, log'[b].entries))
     /\ \A p \in Callers :
          (pc[p] = "write" /\ pc'[p] = "done") =>
            log'[args[p].branch].entries =
              Append(log[args[p].branch].entries, args[p].decision)
     /\ \A p \in Callers :
          (pc[p] = "lookup" /\ pc'[p] = "done") => log' = log]_vars

\* one call appended its record to the log of its branch and, the branch
\* merged, a later call ended with the decision that findDecision found
C36_Witness ==
  \E p, q \in Callers :
    /\ pc[p] = "done" /\ appended[p]
    /\ log[args[p].branch].entries = <<args[p].decision>>
    /\ pc[q] = "done" /\ ~appended[q]
    /\ existing[q] # NoDecision
    /\ ret[q] = Result("ok", existing[q])

\* the decision commits that some branch of the repository holds
RecordedNames ==
  {commits[b][i].decision.name :
     <<b, i>> \in {<<b, i>> \in Branches \X (1..(MaxCalls + 1)) :
                     i <= Len(commits[b]) /\ commits[b][i].kind = "decision"}}

\* findDecision answers a record only when a recorded name starts with the
\* name that was asked for
FoundHasPrefix ==
  findRes.result # NoDecision =>
    \E n \in RecordedNames : IsPrefix(findRes.name, n)

\* C37: findDecision(name) answers a record only if a decision of exactly
\* that name was recorded; when the recorded decisions have other names,
\* names that start with or contain the name included, it answers absent.
C37_FindsExactNameOnly ==
  findRes.result # NoDecision => findRes.name \in RecordedNames

\* a call of the decision tool that reported success
Succeeded(p) == deciding[p].step = "done" /\ deciding[p].success

HoldsEntry(p) ==
  LET file == tree[deciding[p].stage]["DECISIONS.md"]
  IN file.exists /\ \E i \in 1..Len(file.entries) : file.entries[i] = decisionEntry(p)

\* DECISIONS.md is written on the branch of the agent's stage and a call
\* that reported success wrote its entry: the file exists and has the
\* heading first
SuccessWrites ==
  \A p \in Callers :
    Succeeded(p) =>
      LET file == tree[deciding[p].stage]["DECISIONS.md"]
      IN file.exists /\ file.entries[1] = "# Decisions Log"

\* C38: decision tool calls of stage agents that run at the same time on one
\* branch lose no entry: in every interleaving of their read-content,
\* read-sha and write steps, once both calls report success DECISIONS.md
\* holds the entries of both.
C38_NoDecisionEntryLost ==
  \A p, q \in Callers :
    (p # q /\ Succeeded(p) /\ Succeeded(q)
       /\ deciding[p].stage = deciding[q].stage) =>
      (HoldsEntry(p) /\ HoldsEntry(q))


====
